---------------------------- MODULE Spec2Model ----------------------------
(***************************************************************************)
(* Model of class Game in src/main.js: the input aggregator (keyboard,    *)
(* pointer lock, multi-touch), the loading of the avatar, the per-frame    *)
(* update (updateInput, updatePlayer, checkCollisions, updateCamera) and   *)
(* the animation start/stop.                                               *)
(*                                                                         *)
(* Numbers are fixed point:                                                *)
(*   lengths, speeds, move vector   1/1000 of a unit (2.0 is 2000)         *)
(*   angles (look, phi, theta)      micro-radians                          *)
(*   screen coordinates             pixels, drag lengths 1/10 pixel        *)
(*   frame time                     ticks of 1/60 s                        *)
(* Every division truncates toward zero, so a result differs from the      *)
(* floating-point one by less than one unit of its scale.                  *)
(*                                                                         *)
(* position.y and velocity.y stay 0 in the program (the move direction and *)
(* the push vector have y = 0), so vectors on the ground are <<x, z>>.     *)
(* mesh.rotation and the camera orientation are outputs for the renderer;  *)
(* the camera's yaw that updatePlayer reads back is an input of the frame, *)
(* a multiple of a quarter turn.  clipCall is the call (play, stop or      *)
(* none) that the last frame made on the walk clip.                        *)
(***************************************************************************)
EXTENDS Integers, Sequences, FiniteSets

VARIABLES isTouchDevice, keys, move, look, tmove, tlook, fingers,
          currentSpeed, phi, theta, locked, lockRequested, listeners,
          mesh, walkAction, walkRunning, timeScale, clipCall,
          velocity, position, newPosition, camTarget, camPos, colliders,
          threw

vars == <<isTouchDevice, keys, move, look, tmove, tlook, fingers,
          currentSpeed, phi, theta, locked, lockRequested, listeners,
          mesh, walkAction, walkRunning, timeScale, clipCall,
          velocity, position, newPosition, camTarget, camPos, colliders,
          threw>>

inputVars == <<keys, move, look, tmove, tlook, fingers, currentSpeed,
               locked, lockRequested, listeners>>
playerVars == <<mesh, walkAction, walkRunning, timeScale, clipCall, velocity,
                position, newPosition, camTarget, camPos, colliders>>

---------------------------------------------------------------------------
(* Program constants *)
BaseSpeed == 2000
SprintSpeed == 5000
CollisionRadius == 400
Sensitivity == 6000
PiThird == 1047197
MaxDist == 600
JoystickHalf == 60
TicksPerSecond == 60
DecelRate == 10
FollowRate == 15
MovingThreshold == 10000
CameraDistance == 5000
Pi == 3141593

(* Bounds of the model *)
InnerWidth == 800
MaxTouches == 2
MaxFinger == 2
MaxLook == 1200000
MaxListeners == 2
MaxCoord == 30000
MaxDecay == 100
Eps == 10
Round == 2
MaxWalk == 600

Null == -1
TouchIds == 0..MaxFinger
Keys == {"KeyW", "KeyS", "KeyA", "KeyD", "ShiftLeft"}

---------------------------------------------------------------------------
(* Arithmetic *)
Abs(a) == IF a < 0 THEN -a ELSE a
Min(a, b) == IF a < b THEN a ELSE b
Max(a, b) == IF a > b THEN a ELSE b
Div(a, b) == IF a >= 0 THEN a \div b ELSE -((-a) \div b)

RECURSIVE SqrtIter(_, _, _)
SqrtIter(n, lo, hi) ==
    IF lo >= hi THEN lo
    ELSE LET mid == (lo + hi + 1) \div 2
         IN  IF mid * mid <= n THEN SqrtIter(n, mid, hi)
                               ELSE SqrtIter(n, lo, mid - 1)

ISqrt(n) == SqrtIter(n, 0, 46340)

Vec(a, b) == [x |-> a, y |-> b]
Zero2 == Vec(0, 0)

(* THREE.Vector2/3.lerp: this += (v - this) * alpha, alpha = num/den *)
Lerp(a, b, num, den) == a + Div((b - a) * num, den)

(* THREE.MathUtils.lerp(x, y, t) = (1 - t) x + t y, t = num/den *)
MathLerp(a, b, num, den) == Div(a * (den - num) + b * num, den)

(* Math.sin and Math.cos of an angle in micro-radians, in 1/1000: the angle
   is brought into [-pi/2, pi/2]; up to pi/4 the sine series is summed on
   milli-radians, beyond it the cosine series of the complement *)
SinSeries(x) ==
    LET x2 == Div(x * x, 1000)
        t3 == Div(x2 * x, 6000)
        t5 == Div(t3 * x2, 20000)
    IN  x - t3 + t5

CosSeries(x) ==
    LET x2 == Div(x * x, 1000)
        t2 == Div(x2, 2)
        t4 == Div(t2 * x2, 12000)
        t6 == Div(t4 * x2, 30000)
    IN  1000 - t2 + t4 - t6

Sin(a) ==
    LET r == ((a + Pi) % (2 * Pi)) - Pi
        h == IF 2 * r > Pi THEN Pi - r ELSE IF 2 * r < -Pi THEN -Pi - r ELSE r
    IN  IF 4 * Abs(h) <= Pi THEN SinSeries(Div(h, 1000))
        ELSE IF h > 0 THEN CosSeries(Div(Div(Pi, 2) - h, 1000))
        ELSE -CosSeries(Div(Div(Pi, 2) + h, 1000))

Cos(a) == Sin(a + Div(Pi, 2))

---------------------------------------------------------------------------
(* Touch gesture tracker *)
LeftPoints == {Vec(100, 300), Vec(130, 300), Vec(100, 380)}
RightPoints == {Vec(650, 100), Vec(700, 300), Vec(750, 500)}
AllPoints == LeftPoints \cup RightPoints

Touch(i, p) == [identifier |-> i, clientX |-> p.x, clientY |-> p.y]

NoJoystick == [shown |-> FALSE, left |-> 0, top |-> 0, knobX |-> 0, knobY |-> 0]

Identifiers(touches) == { touches[k].identifier : k \in DOMAIN touches }

(* event.changedTouches: the touches of identifiers ids[1..n] at the points
   pts[1..n] *)
TouchList(ids, pts) == [k \in DOMAIN ids |-> Touch(ids[k], pts[k])]

Distinct(ids) == \A j, k \in DOMAIN ids : j # k => ids[j] # ids[k]

(* the part of the state the touch handlers write *)
TouchState == [tmove |-> tmove, tlook |-> tlook, move |-> move,
               look |-> look, currentSpeed |-> currentSpeed, threw |-> threw]

(* length of a pixel vector in 1/10 pixel *)
DragLength(d) == ISqrt(100 * (d.x * d.x + d.y * d.y))

(* Vector2.normalize: divideScalar(length() || 1), in 1/1000 *)
Normalize2(d) ==
    LET len == DragLength(d)
    IN  IF len = 0 THEN Zero2
        ELSE Vec(Div(d.x * 10000, len), Div(d.y * 10000, len))

(* removeJoystick that leaves the widget in place *)
removeJoystick_Keep(j) == j

removeJoystick(j) == IF j.shown THEN NoJoystick ELSE j

createJoystick(pos) ==
    [shown |-> TRUE, left |-> pos.x - JoystickHalf, top |-> pos.y - JoystickHalf,
     knobX |-> 0, knobY |-> 0]

isLeftSide(t) == 2 * t.clientX < InnerWidth

(* onTouchStart without the test that the slot is Empty *)
TouchStartOne_NoEmptyCheck(s, t) ==
    LET pt == Vec(t.clientX, t.clientY)
    IN  IF isLeftSide(t)
        THEN [s EXCEPT !.tmove = [id |-> t.identifier, start |-> pt,
                                  current |-> pt,
                                  joystick |-> createJoystick(pt)]]
        ELSE [s EXCEPT !.tlook = [id |-> t.identifier, start |-> pt]]

(* body of the loop of onTouchStart *)
TouchStartOne(s, t) ==
    LET pt == Vec(t.clientX, t.clientY)
    IN  IF isLeftSide(t) /\ s.tmove.id = Null
        THEN [s EXCEPT !.tmove = [id |-> t.identifier, start |-> pt,
                                  current |-> pt,
                                  joystick |-> createJoystick(pt)]]
        ELSE IF ~isLeftSide(t) /\ s.tlook.id = Null
        THEN [s EXCEPT !.tlook = [id |-> t.identifier, start |-> pt]]
        ELSE s

(* the drag distance without the cap of 60 pixels *)
CappedDist_NoCap(len) == len

(* the capped drag distance in 1/10 pixel *)
CappedDist(len) == Min(len, MaxDist)

(* onTouchMove that measures the look drag from where the contact began *)
TouchMoveOne_NoAdvance(s, t) ==
    LET pt == Vec(t.clientX, t.clientY)
    IN  IF t.identifier = s.tmove.id
        THEN LET diff == Vec(pt.x - s.tmove.start.x, pt.y - s.tmove.start.y)
                 len == DragLength(diff)
                 dist == CappedDist(len)
                 inputVec == Normalize2(diff)
                 knob == IF len = 0 THEN Zero2
                         ELSE Vec(Div(diff.x * 10 * dist, len),
                                  Div(diff.y * 10 * dist, len))
             IN  IF ~s.tmove.joystick.shown
                 THEN [s EXCEPT !.tmove.current = pt, !.threw = TRUE]
                 ELSE [s EXCEPT !.tmove.current = pt,
                                !.tmove.joystick.knobX = knob.x,
                                !.tmove.joystick.knobY = knob.y,
                                !.move = Vec(-inputVec.x, -inputVec.y),
                                !.currentSpeed =
                                    MathLerp(BaseSpeed, SprintSpeed, dist, MaxDist)]
        ELSE IF t.identifier = s.tlook.id
        THEN LET dx == pt.x - s.tlook.start.x
                 dy == pt.y - s.tlook.start.y
             IN  [s EXCEPT !.look = Vec(s.look.x - dx * Sensitivity,
                                        s.look.y + dy * Sensitivity)]
        ELSE s

(* onTouchMove that stores the drag direction without inverting it *)
TouchMoveOne_NoInvert(s, t) ==
    LET pt == Vec(t.clientX, t.clientY)
    IN  IF t.identifier = s.tmove.id
        THEN LET diff == Vec(pt.x - s.tmove.start.x, pt.y - s.tmove.start.y)
                 len == DragLength(diff)
                 dist == CappedDist(len)
                 inputVec == Normalize2(diff)
                 knob == IF len = 0 THEN Zero2
                         ELSE Vec(Div(diff.x * 10 * dist, len),
                                  Div(diff.y * 10 * dist, len))
             IN  IF ~s.tmove.joystick.shown
                 THEN [s EXCEPT !.tmove.current = pt, !.threw = TRUE]
                 ELSE [s EXCEPT !.tmove.current = pt,
                                !.tmove.joystick.knobX = knob.x,
                                !.tmove.joystick.knobY = knob.y,
                                !.move = inputVec,
                                !.currentSpeed =
                                    MathLerp(BaseSpeed, SprintSpeed, dist, MaxDist)]
        ELSE IF t.identifier = s.tlook.id
        THEN LET dx == pt.x - s.tlook.start.x
                 dy == pt.y - s.tlook.start.y
             IN  [s EXCEPT !.look = Vec(s.look.x - dx * Sensitivity,
                                        s.look.y + dy * Sensitivity),
                           !.tlook.start = pt]
        ELSE s

(* body of the loop of onTouchMove; a missing joystick makes querySelector
   throw after current was written *)
TouchMoveOne(s, t) ==
    LET pt == Vec(t.clientX, t.clientY)
    IN  IF t.identifier = s.tmove.id
        THEN LET diff == Vec(pt.x - s.tmove.start.x, pt.y - s.tmove.start.y)
                 len == DragLength(diff)
                 dist == CappedDist(len)
                 inputVec == Normalize2(diff)
                 knob == IF len = 0 THEN Zero2
                         ELSE Vec(Div(diff.x * 10 * dist, len),
                                  Div(diff.y * 10 * dist, len))
             IN  IF ~s.tmove.joystick.shown
                 THEN [s EXCEPT !.tmove.current = pt, !.threw = TRUE]
                 ELSE [s EXCEPT !.tmove.current = pt,
                                !.tmove.joystick.knobX = knob.x,
                                !.tmove.joystick.knobY = knob.y,
                                !.move = Vec(-inputVec.x, -inputVec.y),
                                !.currentSpeed =
                                    MathLerp(BaseSpeed, SprintSpeed, dist, MaxDist)]
        ELSE IF t.identifier = s.tlook.id
        THEN LET dx == pt.x - s.tlook.start.x
                 dy == pt.y - s.tlook.start.y
             IN  [s EXCEPT !.look = Vec(s.look.x - dx * Sensitivity,
                                        s.look.y + dy * Sensitivity),
                           !.tlook.start = pt]
        ELSE s

(* onTouchEnd that takes every identifier other than the move slot's for the
   look slot's *)
TouchEndOne_LooseMatch(s, t) ==
    IF t.identifier = s.tmove.id
    THEN [s EXCEPT !.move = Zero2, !.currentSpeed = 0,
                   !.tmove.joystick = removeJoystick(s.tmove.joystick),
                   !.tmove.id = Null]
    ELSE [s EXCEPT !.tlook.id = Null]

(* onTouchEnd that leaves currentSpeed as it was *)
TouchEndOne_KeepSpeed(s, t) ==
    IF t.identifier = s.tmove.id
    THEN [s EXCEPT !.move = Zero2,
                   !.tmove.joystick = removeJoystick(s.tmove.joystick),
                   !.tmove.id = Null]
    ELSE IF t.identifier = s.tlook.id
    THEN [s EXCEPT !.tlook.id = Null]
    ELSE s

(* body of the loop of onTouchEnd *)
TouchEndOne(s, t) ==
    IF t.identifier = s.tmove.id
    THEN [s EXCEPT !.move = Zero2, !.currentSpeed = 0,
                   !.tmove.joystick = removeJoystick(s.tmove.joystick),
                   !.tmove.id = Null]
    ELSE IF t.identifier = s.tlook.id
    THEN [s EXCEPT !.tlook.id = Null]
    ELSE s

RECURSIVE StartAll(_, _)
StartAll(s, touches) ==
    IF touches = <<>> THEN s
    ELSE StartAll(TouchStartOne(s, Head(touches)), Tail(touches))

(* an exception leaves the loop *)
RECURSIVE MoveAll(_, _)
MoveAll(s, touches) ==
    IF touches = <<>> THEN s
    ELSE LET n == TouchMoveOne(s, Head(touches))
         IN  IF n.threw /\ ~s.threw THEN n ELSE MoveAll(n, Tail(touches))

RECURSIVE EndAll(_, _)
EndAll(s, touches) ==
    IF touches = <<>> THEN s
    ELSE EndAll(TouchEndOne(s, Head(touches)), Tail(touches))

InLookRange(l) == Abs(l.x) <= MaxLook /\ Abs(l.y) <= MaxLook

SetTouchState(n) ==
    /\ tmove' = n.tmove
    /\ tlook' = n.tlook
    /\ move' = n.move
    /\ look' = n.look
    /\ currentSpeed' = n.currentSpeed
    /\ threw' = n.threw

onTouchStart(touches) ==
    /\ isTouchDevice
    /\ Identifiers(touches) \cap fingers = {}
    /\ SetTouchState(StartAll(TouchState, touches))
    /\ fingers' = fingers \cup Identifiers(touches)
    /\ UNCHANGED <<isTouchDevice, keys, phi, theta, locked, lockRequested,
                   listeners, playerVars>>

onTouchMove(touches) ==
    /\ isTouchDevice
    /\ Identifiers(touches) \subseteq fingers
    /\ InLookRange(MoveAll(TouchState, touches).look)
    /\ SetTouchState(MoveAll(TouchState, touches))
    /\ UNCHANGED <<isTouchDevice, keys, fingers, phi, theta, locked,
                   lockRequested, listeners, playerVars>>

onTouchEnd(touches) ==
    /\ isTouchDevice
    /\ Identifiers(touches) \subseteq fingers
    /\ SetTouchState(EndAll(TouchState, touches))
    /\ fingers' = fingers \ Identifiers(touches)
    /\ UNCHANGED <<isTouchDevice, keys, phi, theta, locked, lockRequested,
                   listeners, playerVars>>

(* where a finger comes down, and where a tracked finger is dragged to: it
   stays in the half where it came down; the handlers read no coordinate of
   an untracked finger *)
StartPoints == {Vec(100, 300), Vec(700, 300)}

DragPoints(i) ==
    IF i = tmove.id THEN LeftPoints
    ELSE IF i = tlook.id THEN RightPoints
    ELSE {Vec(100, 300)}

TouchStartEvent ==
    \E n \in 1..MaxTouches :
        \E ids \in [1..n -> TouchIds \ fingers] :
            /\ Distinct(ids)
            /\ \E pts \in [1..n -> StartPoints] : onTouchStart(TouchList(ids, pts))

(* the lists of points the fingers ids[1..n] can be dragged to *)
RECURSIVE DragLists(_)
DragLists(ids) ==
    IF ids = <<>> THEN {<<>>}
    ELSE { <<p>> \o rest : p \in DragPoints(Head(ids)),
                            rest \in DragLists(Tail(ids)) }

(* the touches of a touchmove or touchend event in the order of their
   identifiers: each touch of the list matches at most one slot *)
Ascending(ids) == \A j, k \in DOMAIN ids : j < k => ids[j] < ids[k]

TouchMoveEvent ==
    \E n \in 1..MaxTouches :
        \E ids \in [1..n -> fingers] :
            /\ Ascending(ids)
            /\ \E pts \in DragLists(ids) : onTouchMove(TouchList(ids, pts))

(* a touchend or a touchcancel event: both are bound to onTouchEnd *)
TouchEndEvent ==
    \E n \in 1..MaxTouches :
        \E ids \in [1..n -> fingers] :
            /\ Ascending(ids)
            /\ onTouchEnd(TouchList(ids, [k \in 1..n |-> Vec(100, 300)]))

---------------------------------------------------------------------------
(* Keyboard and pointer lock *)
onKeyDown(code) ==
    /\ ~isTouchDevice
    /\ keys' = keys \cup {code}
    /\ UNCHANGED <<isTouchDevice, move, look, tmove, tlook, fingers,
                   currentSpeed, phi, theta, locked, lockRequested, listeners,
                   playerVars, threw>>

onKeyUp(code) ==
    /\ ~isTouchDevice
    /\ keys' = keys \ {code}
    /\ UNCHANGED <<isTouchDevice, move, look, tmove, tlook, fingers,
                   currentSpeed, phi, theta, locked, lockRequested, listeners,
                   playerVars, threw>>

(* the click listener of the canvas: canvas.requestPointerLock() *)
onClick ==
    /\ ~isTouchDevice
    /\ ~locked
    /\ lockRequested' = TRUE
    /\ UNCHANGED <<isTouchDevice, keys, move, look, tmove, tlook, fingers,
                   currentSpeed, phi, theta, locked, listeners, playerVars,
                   threw>>

(* addEventListener with a fresh bound function always registers one more *)
addMouseMoveListener(n) == n + 1

(* removeEventListener with a fresh bound function matches no registered
   listener *)
removeMouseMoveListener(n) == n

(* the pointerlockchange listener; engaged is
   document.pointerLockElement === canvas *)
onPointerLockChange(engaged) ==
    /\ ~isTouchDevice
    /\ IF engaged THEN lockRequested /\ ~locked /\ listeners < MaxListeners
                  ELSE locked
    /\ locked' = engaged
    /\ lockRequested' = FALSE
    /\ listeners' = IF engaged THEN addMouseMoveListener(listeners)
                               ELSE removeMouseMoveListener(listeners)
    /\ UNCHANGED <<isTouchDevice, keys, move, look, tmove, tlook, fingers,
                   currentSpeed, phi, theta, playerVars, threw>>

(* one call of onMouseMove *)
MouseMoveOnce(l, mx, my) == Vec(l.x + mx * Sensitivity, l.y + my * Sensitivity)

(* a mousemove event of the document runs every registered listener *)
RECURSIVE Dispatch(_, _, _, _)
Dispatch(l, n, mx, my) ==
    IF n = 0 THEN l ELSE Dispatch(MouseMoveOnce(l, mx, my), n - 1, mx, my)

onMouseMove(mx, my) ==
    /\ ~isTouchDevice
    /\ InLookRange(Dispatch(look, listeners, mx, my))
    /\ look' = Dispatch(look, listeners, mx, my)
    /\ UNCHANGED <<isTouchDevice, keys, move, tmove, tlook, fingers,
                   currentSpeed, phi, theta, locked, lockRequested, listeners,
                   playerVars, threw>>

MouseDeltas == {Vec(50, 200), Vec(-50, -200)}

KeyDownEvent == \E code \in Keys : onKeyDown(code)
KeyUpEvent == \E code \in Keys : onKeyUp(code)
PointerLockChangeEvent == \E engaged \in BOOLEAN : onPointerLockChange(engaged)
MouseMoveEvent == \E d \in MouseDeltas : onMouseMove(d.x, d.y)

---------------------------------------------------------------------------
(* Per-frame update *)
Gnd(a, b) == [x |-> a, z |-> b]
Origin == Gnd(0, 0)
NoPosition == [x |-> 0, z |-> 0, set |-> FALSE]
At(p) == [x |-> p.x, z |-> p.z, set |-> TRUE]

LerpGnd(a, b, num, den) ==
    Gnd(Lerp(a.x, b.x, num, den), Lerp(a.z, b.z, num, den))

Clamp(v, lo, hi) == Max(lo, Min(hi, v))

(* lines 313-317: the later assignment of an axis wins *)
KeyMove(ks) ==
    Vec(IF "KeyD" \in ks THEN 1000 ELSE IF "KeyA" \in ks THEN -1000 ELSE 0,
        IF "KeyS" \in ks THEN -1000 ELSE IF "KeyW" \in ks THEN 1000 ELSE 0)

KeySpeed(ks) == IF "ShiftLeft" \in ks THEN SprintSpeed ELSE BaseSpeed

UpdatedMove == IF isTouchDevice THEN move ELSE KeyMove(keys)
UpdatedSpeed == IF isTouchDevice THEN currentSpeed ELSE KeySpeed(keys)
(* line 323 left out *)
ClampPhi_NoClamp(a) == a

ClampPhi(a) == Clamp(a, -PiThird, PiThird)

updateInput ==
    /\ move' = UpdatedMove
    /\ currentSpeed' = UpdatedSpeed
    /\ phi' = ClampPhi(look.y)
    /\ theta' = look.x

(* planar distance, rounded down *)
Distance(dx, dz) == ISqrt(dx * dx + dz * dz)

(* the push vector without normalize(): the offset times the overlap *)
PushVector_NotNormalized(dx, dz, overlap) ==
    Gnd(Div(dx * overlap, 1000), Div(dz * overlap, 1000))

(* Vector3.normalize().multiplyScalar(overlap): divideScalar(length() || 1)
   leaves the zero vector as it is *)
PushVector(dx, dz, overlap) ==
    LET len == Distance(dx, dz)
    IN  IF len = 0 THEN Gnd(0, 0)
        ELSE Gnd(Div(dx * overlap, len), Div(dz * overlap, len))

(* body of the loop of checkCollisions *)
CollideOne(p, c) ==
    LET dx == p.x - c.x
        dz == p.z - c.z
        distance == Distance(dx, dz)
        minDistance == CollisionRadius + c.radius
    IN  IF dx * dx + dz * dz < minDistance * minDistance
        THEN LET push == PushVector(dx, dz, minDistance - distance)
             IN  Gnd(p.x + push.x, p.z + push.z)
        ELSE p

RECURSIVE checkCollisions(_, _)
checkCollisions(p, cs) ==
    IF cs = <<>> THEN p
    ELSE checkCollisions(CollideOne(p, Head(cs)), Tail(cs))

(* applyAxisAngle about +Y by a multiple q of a quarter turn *)
RotateY(d, q) ==
    LET c == IF q = 0 THEN 1 ELSE IF q = 2 THEN -1 ELSE 0
        sn == IF q = 1 THEN 1 ELSE IF q = 3 THEN -1 ELSE 0
    IN  Gnd(d.x * c + d.z * sn, d.z * c - d.x * sn)

(* the move vector as a unit direction on the ground, 1/1000 *)
MoveDirection(mv) ==
    LET len == Distance(mv.x, mv.y)
    IN  Gnd(Div(mv.x * 1000, len), Div(mv.y * 1000, len))

TargetVelocity(mv, speed, q) ==
    LET d == RotateY(MoveDirection(mv), q)
    IN  Gnd(Div(d.x * speed, 1000), Div(d.z * speed, 1000))

(* lines 327-340 *)
NextVelocity(v, mv, speed, q, dt) ==
    IF mv.x * mv.x + mv.y * mv.y = 0
    THEN LerpGnd(v, Origin, DecelRate * dt, TicksPerSecond)
    ELSE LerpGnd(v, TargetVelocity(mv, speed, q), DecelRate * dt, TicksPerSecond)

LengthSq(v) == v.x * v.x + v.z * v.z
IsMoving(v) == LengthSq(v) > MovingThreshold

(* a frame that calls play() in every moving frame *)
ClipCall_AlwaysPlay(moving, clip, running) ==
    IF moving THEN (IF clip THEN "play" ELSE "none")
    ELSE (IF clip /\ running THEN "stop" ELSE "none")

(* lines 355-357 and 363-365: the call the frame makes on the walk clip *)
ClipCall(moving, clip, running) ==
    IF moving THEN (IF clip /\ ~running THEN "play" ELSE "none")
    ELSE (IF clip /\ running THEN "stop" ELSE "none")

updatePlayer(dt, q) ==
    LET v == NextVelocity(velocity, UpdatedMove, UpdatedSpeed, q, dt)
        candidate == Gnd(position.x + Div(v.x * dt, TicksPerSecond),
                         position.z + Div(v.z * dt, TicksPerSecond))
        corrected == checkCollisions(candidate, colliders)
    IN  /\ velocity' = v
        /\ newPosition' = At(corrected)
        /\ position' = corrected
        /\ clipCall' = ClipCall(IsMoving(v), walkAction, walkRunning)
        /\ walkRunning' = IF IsMoving(v) THEN (walkAction \/ walkRunning)
                          ELSE IF walkAction /\ walkRunning THEN FALSE
                          ELSE walkRunning
        /\ timeScale' = IF IsMoving(v) /\ walkAction
                        THEN MathLerp(500, 2000, Distance(v.x, v.z), SprintSpeed)
                        ELSE timeScale

Point(a, b, c) == [x |-> a, y |-> b, z |-> c]

(* lines 390-393: the offset on the sphere of radius distance *)
CameraOffset(th, ph) ==
    Point(Div(Div(CameraDistance * Sin(th), 1000) * Cos(ph), 1000),
          Div(CameraDistance * Sin(ph), 1000),
          Div(Div(CameraDistance * Cos(th), 1000) * Cos(ph), 1000))

(* lines 395-397: camera.position.lerp(target + offset, 15 * deltaTime) *)
NextCameraPosition(c, target, th, ph, dt) ==
    LET offset == CameraOffset(th, ph)
    IN  Point(Lerp(c.x, target.x + offset.x, FollowRate * dt, TicksPerSecond),
              Lerp(c.y, offset.y, FollowRate * dt, TicksPerSecond),
              Lerp(c.z, target.z + offset.z, FollowRate * dt, TicksPerSecond))

updateCamera(dt) ==
    /\ camTarget' = LerpGnd(camTarget, position', FollowRate * dt, TicksPerSecond)
    /\ camPos' = NextCameraPosition(camPos, camTarget', theta', phi', dt)

(* update that runs updatePlayer and updateCamera without the test of
   player.mesh *)
update_NoMeshTest(dt, q) ==
    /\ updateInput
    /\ updatePlayer(dt, q) /\ updateCamera(dt)
    /\ UNCHANGED <<isTouchDevice, keys, look, tmove, tlook, fingers, locked,
                   lockRequested, listeners, mesh, walkAction, colliders,
                   threw>>

(* update(deltaTime), called by animate; dt is clock.getDelta() and q the
   yaw of camera.getWorldDirection *)
update(dt, q) ==
    /\ updateInput
    /\ IF mesh
       THEN updatePlayer(dt, q) /\ updateCamera(dt)
       ELSE UNCHANGED <<velocity, newPosition, position, walkRunning,
                        timeScale, clipCall, camTarget, camPos>>
    /\ UNCHANGED <<isTouchDevice, keys, look, tmove, tlook, fingers, locked,
                   lockRequested, listeners, mesh, walkAction, colliders,
                   threw>>

---------------------------------------------------------------------------
(* Construction and the specifications *)
Collider(cx, cz, r) == [x |-> cx, z |-> cz, radius |-> r]

(* generateScenery: colliders at least safeZone = 10 from the origin, a
   tree's radius in [1, 1.5), a rock's in [0.3, 0.8) *)
ColliderLists ==
    { <<Collider(10000, 0, 300)>>,
      <<Collider(10000, 0, 1000)>>,
      <<Collider(10000, 0, 300), Collider(10800, 0, 300)>>,
      <<Collider(10800, 0, 300), Collider(10000, 0, 300)>>,
      <<Collider(10000, 0, 300), Collider(12000, 0, 500)>> }

(* the state the constructor leaves *)
Constructed(touch, cs) ==
    /\ isTouchDevice = touch
    /\ keys = {}
    /\ move = Zero2
    /\ look = Zero2
    /\ tmove = [id |-> Null, start |-> Zero2, current |-> Zero2,
                joystick |-> NoJoystick]
    /\ tlook = [id |-> Null, start |-> Zero2]
    /\ fingers = {}
    /\ currentSpeed = 0
    /\ phi = 0
    /\ theta = -785398
    /\ locked = FALSE
    /\ lockRequested = FALSE
    /\ listeners = 0
    /\ mesh = FALSE
    /\ walkAction = FALSE
    /\ walkRunning = FALSE
    /\ timeScale = 1000
    /\ clipCall = "none"
    /\ velocity = Origin
    /\ position = Origin
    /\ newPosition = NoPosition
    /\ camTarget = Origin
    /\ camPos = Point(0, 0, 0)
    /\ colliders = cs
    /\ threw = FALSE

Init == \E touch \in BOOLEAN : Constructed(touch, <<Collider(10000, 0, 300)>>)

FrameEvent == update(1, 0)

Next ==
    \/ TouchStartEvent
    \/ TouchMoveEvent
    \/ TouchEndEvent
    \/ KeyDownEvent
    \/ KeyUpEvent
    \/ onClick
    \/ PointerLockChangeEvent
    \/ MouseMoveEvent
    \/ FrameEvent

Spec == Init /\ [][Next]_vars

---------------------------------------------------------------------------
(* Properties of the input aggregator, checked under Spec *)

(* C2: in every reachable state the camera pitch phi lies in
   [-pi/3, pi/3], whatever look deltas the mouse and the look contact gave. *)
C2_PitchClamped == -PiThird <= phi /\ phi <= PiThird

(* a frame has clamped a look accumulator that lies beyond pi/3 *)
C2_Witness == Abs(look.y) > PiThird /\ Abs(phi) = PiThird

IdLists(S) == UNION { { ids \in [1..n -> S] : Distinct(ids) } : n \in 1..MaxTouches }
PointLists(n, S) == [1..n -> S]

(* index of the first touch of the list in the left (right) half, or 0 *)
FirstIn(touches, left) ==
    LET hits == { k \in DOMAIN touches : isLeftSide(touches[k]) = left }
    IN  IF hits = {} THEN 0 ELSE CHOOSE k \in hits : \A j \in hits : k <= j

C3_Accepts(slot, slot2, touches, left) ==
    LET k == FirstIn(touches, left)
    IN  IF slot.id # Null \/ k = 0
        THEN slot2 = slot
        ELSE /\ slot2.id = touches[k].identifier
             /\ slot2.start = Vec(touches[k].clientX, touches[k].clientY)

(* C3: a touch-start event gives a slot a contact only if the slot is Empty,
   and then the first touch of the event in the slot's half; an Active slot
   keeps its identifier and start position. *)
C3_OneContactPerSlot ==
    [][\A ids \in IdLists(fingers' \ fingers) :
         \A pts \in PointLists(Len(ids), StartPoints) :
            onTouchStart(TouchList(ids, pts)) =>
                /\ C3_Accepts(tmove, tmove', TouchList(ids, pts), TRUE)
                /\ C3_Accepts(tlook, tlook', TouchList(ids, pts), FALSE)]_vars

(* both slots are Active and a further finger, which no slot took, is down *)
C3_Witness ==
    /\ tmove.id # Null
    /\ tlook.id # Null
    /\ fingers \ {tmove.id, tlook.id} # {}

Untracked == fingers \ {tmove.id, tlook.id}

(* C4: a touch-move or touch-end (touch-cancel) event whose identifiers match
   neither slot changes no slot, nor the move vector, currentSpeed, the look
   accumulator or the joystick, and raises no error. *)
C4_UntrackedIgnored ==
    [][\A ids \in IdLists(Untracked) :
         LET touches == TouchList(ids, [k \in DOMAIN ids |-> Vec(100, 300)])
         IN  (onTouchMove(touches) \/ onTouchEnd(touches)) =>
                 /\ UNCHANGED <<tmove, tlook, move, currentSpeed, look>>
                 /\ ~threw']_vars

(* an untracked finger is down while the joystick is dragged and the look
   contact is Active *)
C4_Witness ==
    /\ Untracked # {}
    /\ tmove.id # Null
    /\ tlook.id # Null
    /\ move # Zero2
    /\ currentSpeed > 0
    /\ tmove.joystick.shown

Held(code) == IF code \in keys THEN 1000 ELSE 0

(* C5: in keyboard mode updateInput leaves on each axis the sum of +1 for
   the positive key and -1 for the negative key, so two opposite keys give 0. *)
C5_OppositeKeysCancel ==
    [][(~isTouchDevice /\ FrameEvent) =>
          /\ move'.x = Held("KeyD") - Held("KeyA")
          /\ move'.y = Held("KeyW") - Held("KeyS")]_vars

(* C6: in keyboard/mouse mode no step changes the look accumulator while
   pointer capture is not engaged. *)
C6_LookOnlyWhileCaptured ==
    [][(~isTouchDevice /\ ~locked) => look' = look]_vars

(* C8: currentSpeed is 0, baseSpeed or sprintSpeed in keyboard mode; in touch
   mode it is 0 or, with the move slot Active, the interpolation from
   baseSpeed to sprintSpeed by min(drag, 60)/60, which lies between them. *)
C8_SpeedValues ==
    IF ~isTouchDevice
    THEN currentSpeed \in {0, BaseSpeed, SprintSpeed}
    ELSE \/ currentSpeed = 0
         \/ /\ tmove.id # Null
            /\ BaseSpeed <= currentSpeed
            /\ currentSpeed <= SprintSpeed
            /\ LET len == DragLength(Vec(tmove.current.x - tmove.start.x,
                                         tmove.current.y - tmove.start.y))
                   drag == IF len > MaxDist THEN MaxDist ELSE len
               IN  currentSpeed =
                       BaseSpeed + Div((SprintSpeed - BaseSpeed) * drag, MaxDist)

(* the joystick is dragged part of the way: a speed strictly between *)
C8_Witness ==
    isTouchDevice /\ BaseSpeed < currentSpeed /\ currentSpeed < SprintSpeed

Ended == fingers \ fingers'

(* C9: a touch-end (touch-cancel) of the move contact empties the move slot,
   zeroes the move vector and currentSpeed and removes the joystick; one of
   the look contact clears only the look slot's identifier. *)
C9_EndOfContact ==
    [][/\ tmove.id \in Ended =>
            /\ tmove'.id = Null
            /\ move' = Zero2
            /\ currentSpeed' = 0
            /\ ~tmove'.joystick.shown
       /\ tlook.id \in Ended =>
            /\ tlook' = [tlook EXCEPT !.id = Null]
            /\ look' = look
            /\ tmove.id \notin Ended => UNCHANGED <<tmove, move, currentSpeed>>]_vars

(* the look contact has ended while the joystick is still dragged *)
C9_Witness ==
    /\ tlook.id = Null
    /\ tlook.start # Zero2
    /\ tmove.id # Null
    /\ move # Zero2
    /\ currentSpeed > 0

(* the index of the contact i in the list of identifiers ids, or 0 *)
IndexOf(ids, i) ==
    IF \E k \in DOMAIN ids : ids[k] = i
    THEN CHOOSE k \in DOMAIN ids : ids[k] = i
    ELSE 0

(* the touch-move events that carry the contact i: the lists of identifiers
   of fingers that are down, with i among them *)
ListsWith(i) ==
    UNION { { ids \in [1..n -> fingers] : Distinct(ids) /\ IndexOf(ids, i) # 0 }
            : n \in 1..MaxTouches }

(* C11: a touch-move of the move contact sets the move vector to
   -normalize(current - start) and currentSpeed to the interpolation from
   baseSpeed to sprintSpeed by min(drag, 60)/60: a drag of 30 pixels gives
   the midpoint and one of 60 pixels or more gives sprintSpeed.  Stated of
   what onTouchMove makes of every reachable state, for every event that
   carries the move contact. *)
C11_MoveFromDrag ==
    (isTouchDevice /\ tmove.id # Null) =>
        \A ids \in ListsWith(tmove.id) :
           \A pts \in DragLists(ids) :
              LET after == MoveAll(TouchState, TouchList(ids, pts))
                  pt == pts[IndexOf(ids, tmove.id)]
                  dx == pt.x - tmove.start.x
                  dy == pt.y - tmove.start.y
                  len == ISqrt(100 * (dx * dx + dy * dy))
                  drag == IF len > 600 THEN 600 ELSE len
              IN  /\ after.tmove.current = pt
                  /\ after.move.x = (IF len = 0 THEN 0 ELSE -Div(dx * 10000, len))
                  /\ after.move.y = (IF len = 0 THEN 0 ELSE -Div(dy * 10000, len))
                  /\ after.currentSpeed =
                        Div(BaseSpeed * (600 - drag) + SprintSpeed * drag, 600)
                  /\ len = 300 => 2 * after.currentSpeed = BaseSpeed + SprintSpeed
                  /\ len >= 600 => after.currentSpeed = SprintSpeed

(* the joystick was dragged 30 pixels to the right: the midpoint speed and
   the move vector pointing left *)
C11_Witness ==
    /\ tmove.id # Null
    /\ tmove.current.x - tmove.start.x = 30
    /\ tmove.current.y = tmove.start.y
    /\ move = Vec(-1000, 0)
    /\ 2 * currentSpeed = BaseSpeed + SprintSpeed

(* C17: a touch-move of the look contact subtracts (x - previous x) *
   sensitivity from look.x, adds (y - previous y) * sensitivity to look.y and
   makes the current point the previous one; a further move of the contact
   then leaves the total change (-(p2.x - p0.x), +(p2.y - p0.y)) *
   sensitivity, whatever the point between.  Stated of what onTouchMove
   makes of every reachable state, for every event that carries the look
   contact and every further move of the contact. *)
C17_LookIncremental ==
    (isTouchDevice /\ tlook.id # Null) =>
        \A ids \in ListsWith(tlook.id) :
           \A pts \in DragLists(ids) :
              LET after == MoveAll(TouchState, TouchList(ids, pts))
                  pt == pts[IndexOf(ids, tlook.id)]
              IN  /\ after.look.x = look.x - (pt.x - tlook.start.x) * Sensitivity
                  /\ after.look.y = look.y + (pt.y - tlook.start.y) * Sensitivity
                  /\ after.tlook.start = pt
                  /\ after.tlook.id = tlook.id
                  /\ \A p2 \in RightPoints :
                        LET last == MoveAll(after, <<Touch(tlook.id, p2)>>)
                        IN  /\ last.look.x
                                  = look.x - (p2.x - tlook.start.x) * Sensitivity
                            /\ last.look.y
                                  = look.y + (p2.y - tlook.start.y) * Sensitivity
                            /\ last.tlook.start = p2

(* a look contact that came down at (700, 300) with the accumulator at zero
   has been dragged to another point *)
C17_Witness ==
    /\ tlook.id # Null
    /\ tlook.start \in RightPoints \ StartPoints
    /\ look.x = -(tlook.start.x - 700) * Sensitivity
    /\ look.y = (tlook.start.y - 300) * Sensitivity
    /\ look # Zero2

(* C18: in every state reachable by touch-start, touch-move, touch-end and
   touch-cancel events the joystick widget exists exactly when the move slot
   is Active, and no onTouchMove has met a missing joystick while it handled
   the move contact. *)
C18_JoystickIffActive ==
    /\ tmove.joystick.shown <=> tmove.id # Null
    /\ ~threw

(* onTouchMove has handled the move contact and moved the knob of the
   joystick, while a further finger that no slot took is down *)
C18_Witness ==
    /\ tmove.id # Null
    /\ tmove.joystick.shown
    /\ tmove.joystick.knobX # 0
    /\ Untracked # {}

(* C19: while pointer capture is engaged, a mouse-move event adds
   (movementX, movementY) * sensitivity to the look accumulator exactly
   once, however often capture was engaged and released before. *)
C19_OneAddPerMouseMove ==
    [][\A d \in MouseDeltas :
         (locked /\ onMouseMove(d.x, d.y)) =>
            /\ look'.x = look.x + d.x * Sensitivity
            /\ look'.y = look.y + d.y * Sensitivity]_vars

---------------------------------------------------------------------------
(* The avatar in motion: the states after Walking.fbx has loaded, the avatar
   at pos with velocity vel and no key or contact held *)
MinDistance(c) == CollisionRadius + c.radius
DistSq(p, c) == (p.x - c.x) * (p.x - c.x) + (p.z - c.z) * (p.z - c.z)
Outside(p, c) == DistSq(p, c) >= MinDistance(c) * MinDistance(c)

Loaded(touch, cs, pos, vel) ==
    /\ isTouchDevice = touch
    /\ keys = {}
    /\ move = Zero2
    /\ look = Zero2
    /\ tmove = [id |-> Null, start |-> Zero2, current |-> Zero2,
                joystick |-> NoJoystick]
    /\ tlook = [id |-> Null, start |-> Zero2]
    /\ fingers = {}
    /\ currentSpeed = IF touch THEN 0 ELSE BaseSpeed
    /\ phi = 0
    /\ theta = 0
    /\ locked = FALSE
    /\ lockRequested = FALSE
    /\ listeners = 0
    /\ mesh = TRUE
    /\ walkAction = TRUE
    /\ walkRunning = IsMoving(vel)
    /\ timeScale = IF IsMoving(vel)
                   THEN MathLerp(500, 2000, Distance(vel.x, vel.z), SprintSpeed)
                   ELSE 1000
    /\ clipCall = "none"
    /\ velocity = vel
    /\ position = pos
    /\ newPosition = At(pos)
    /\ camTarget = pos
    /\ camPos = Point(pos.x + CameraOffset(0, 0).x, CameraOffset(0, 0).y,
                      pos.z + CameraOffset(0, 0).z)
    /\ colliders = cs
    /\ threw = FALSE

(* the onLoad callback of loader.load: the avatar and, if the file has an
   animation, the walk clip *)
onModelLoaded(hasClip) ==
    /\ ~mesh
    /\ mesh' = TRUE
    /\ walkAction' = hasClip
    /\ UNCHANGED <<isTouchDevice, inputVars, phi, theta, walkRunning,
                   timeScale, clipCall, velocity, position, newPosition,
                   camTarget, camPos, colliders, threw>>

Bounded(limit) ==
    /\ Abs(velocity.x) <= limit /\ Abs(velocity.z) <= limit
    /\ Abs(position.x) <= limit /\ Abs(position.z) <= limit
    /\ Abs(camTarget.x) <= limit /\ Abs(camTarget.z) <= limit
    /\ Abs(camPos.x) <= 6 * limit /\ Abs(camPos.y) <= 6 * limit
    /\ Abs(camPos.z) <= 6 * limit + CameraDistance

(* frames that resolve a candidate against the obstacles *)
ResolveStarts == {Gnd(10700, 0), Gnd(10400, 700), Gnd(10700, 750), Gnd(11400, 0)}
ResolveSpeeds == {-3500, 0, 3500, 4500}
ResolveTicks == {12}

InitResolve ==
    \E cs \in ColliderLists, pos \in ResolveStarts :
        \E vx \in ResolveSpeeds, vz \in ResolveSpeeds :
            /\ \A k \in DOMAIN cs : Outside(pos, cs[k])
            /\ Loaded(FALSE, cs, pos, Gnd(vx, vz))

ResolveFrame == \E dt \in ResolveTicks : update(dt, 0) /\ Bounded(MaxCoord)'

SpecResolve == InitResolve /\ [][ResolveFrame]_vars

(* frames with the move vector held at zero *)
DecaySpeeds == {-27, -9, 0, 9, 27}
DecayTicks == {4, 24}

InitDecay ==
    \E touch \in BOOLEAN :
        \E vx \in DecaySpeeds, vz \in DecaySpeeds :
            Loaded(touch, <<Collider(10000, 0, 300)>>, Origin, Gnd(vx, vz))

(* a frame whose blend factors exceed 1 can grow the state: those frames
   are taken only within MaxDecay *)
DecayFrame ==
    \E dt \in DecayTicks :
        /\ update(dt, 0)
        /\ FollowRate * dt <= TicksPerSecond \/ Bounded(MaxDecay)'

(* requestAnimationFrame schedules the next frame in every frame *)
SpecDecay == InitDecay /\ [][DecayFrame]_vars /\ WF_vars(DecayFrame)

(* the avatar walked by the keyboard, from the construction on: Walking.fbx
   loads at some moment, with or without an animation.  No look input
   comes, so theta = 0 after the first frame; a frame of 1/15 s puts the
   camera at target + offset, looking along -z as it does before the first
   lookAt: its yaw is a half turn in every frame *)
WalkKeys == {"KeyW", "ShiftLeft"}
WalkTicks == {4}
HalfTurn == 2

InitWalk == Constructed(FALSE, <<Collider(10000, 0, 300)>>)

WalkKeyDown == \E code \in WalkKeys : onKeyDown(code)
WalkKeyUp == \E code \in WalkKeys : onKeyUp(code)
ModelLoaded == \E hasClip \in BOOLEAN : onModelLoaded(hasClip)
WalkFrame ==
    \E dt \in WalkTicks :
        /\ update(dt, HalfTurn)
        /\ Abs(position'.x) <= MaxWalk /\ Abs(position'.z) <= MaxWalk

NextWalk == WalkKeyDown \/ WalkKeyUp \/ ModelLoaded \/ WalkFrame

SpecWalk == InitWalk /\ [][NextWalk]_vars

(* the candidate of the frame and the position after the first k obstacles *)
Candidate(dt, q) ==
    LET v == NextVelocity(velocity, UpdatedMove, UpdatedSpeed, q, dt)
    IN  Gnd(position.x + Div(v.x * dt, TicksPerSecond),
            position.z + Div(v.z * dt, TicksPerSecond))

AfterObstacles(p, k) == checkCollisions(p, SubSeq(colliders, 1, k))

(* C1: after checkCollisions the corrected position is, for every obstacle
   of the list, at least collisionRadius + radius away from its centre, up
   to the tolerance Eps. *)
C1_NoResidualOverlap ==
    newPosition.set =>
        \A k \in DOMAIN colliders :
            LET c == colliders[k]
            IN  DistSq(newPosition, c) >= (MinDistance(c) - Eps) * (MinDistance(c) - Eps)

(* C7: with the move vector held at zero the velocity magnitude eventually
   falls below Eps and stays below it, for every starting velocity and
   every sequence of frame times. *)
BelowEps ==
    <<velocity.x, velocity.z>> \in
        { w \in (-Eps..Eps) \X (-Eps..Eps) : w[1] * w[1] + w[2] * w[2] < Eps * Eps }

C7_VelocityConverges == <>[]BelowEps

(* C10: when the position handed to an obstacle's step of checkCollisions is
   exactly the obstacle's centre, the step moves it off the centre. *)
C10_FallbackPush ==
    [][\A dt \in ResolveTicks :
         update(dt, 0) =>
            \A k \in DOMAIN colliders :
                LET before == AfterObstacles(Candidate(dt, 0), k - 1)
                    c == colliders[k]
                IN  (before.x = c.x /\ before.z = c.z) =>
                        CollideOne(before, c) # before]_vars

(* C14: checkCollisions applied to the position it has returned, with the
   same obstacle list, moves that position by at most Eps. *)
C14_ResolveIdempotent ==
    newPosition.set =>
        LET again == checkCollisions(Gnd(newPosition.x, newPosition.z), colliders)
        IN  /\ Abs(again.x - newPosition.x) <= Eps
            /\ Abs(again.z - newPosition.z) <= Eps

(* C15: with a single obstacle that the candidate overlaps at a planar
   distance d > 0, checkCollisions moves the candidate by minDistance - d
   along the line from the obstacle's centre through the candidate, away
   from the centre, and leaves the coordinate across that line as it is;
   the obstacle of radius 1 with the candidate 0.5 from its centre along x
   gives x = centre + 1.4 and z unchanged.  Lengths are exact up to the
   rounding of the fixed point, Round. *)
C15_SinglePush ==
    [][\A dt \in ResolveTicks :
         (update(dt, 0) /\ Len(colliders) = 1) =>
            LET c == colliders[1]
                cand == Candidate(dt, 0)
                dx == cand.x - c.x
                dz == cand.z - c.z
                d == Distance(dx, dz)
                px == position'.x - cand.x
                pz == position'.z - cand.z
            IN  (0 < DistSq(cand, c) /\ ~Outside(cand, c)) =>
                    /\ Abs(Distance(px, pz) - (MinDistance(c) - d)) <= Round
                    /\ Abs(Distance(position'.x - c.x, position'.z - c.z)
                             - MinDistance(c)) <= Round
                    /\ Abs(px * dz - pz * dx) <= Abs(dx) + Abs(dz)
                    /\ px * dx + pz * dz >= 0
                    /\ dz = 0 => pz = 0
                    /\ dx = 0 => px = 0
                    /\ (c.radius = 1000 /\ dx = 500 /\ dz = 0) =>
                           (position'.x = c.x + 1400 /\ position'.z = c.z)]_vars

(* a frame has taken the avatar, with the velocity -4.5 along x that only a
   frame leaves, to the candidate 0.5 from the centre of the obstacle of
   radius 1 and checkCollisions has put it 1.4 from the centre *)
C15_Witness ==
    /\ colliders = <<Collider(10000, 0, 1000)>>
    /\ newPosition = At(Gnd(11400, 0))
    /\ velocity = Gnd(-4500, 0)

(* C12: while the avatar is not loaded a frame raises no error and leaves
   the velocity, the avatar's position, the camera follow target and the
   camera position as they are, whatever keys are held; with the avatar
   loaded but no walk clip a frame makes no call on the clip and leaves its
   running state and its rate as they are. *)
C12_NoMeshNoClip ==
    [][\A dt \in WalkTicks :
         update(dt, HalfTurn) =>
            /\ ~threw'
            /\ ~mesh =>
                  /\ UNCHANGED <<velocity, position, newPosition, camTarget, camPos>>
                  /\ UNCHANGED <<walkRunning, timeScale>>
                  /\ clipCall' = "none"
            /\ (mesh /\ ~walkAction) =>
                  /\ UNCHANGED <<walkRunning, timeScale>>
                  /\ clipCall' = "none"]_vars

(* a frame has run with W and Shift held while the avatar was not loaded:
   updateInput has set the move vector and the speed, and the avatar and
   the camera are where the constructor left them *)
C12_Witness ==
    /\ ~mesh
    /\ move = Vec(0, 1000)
    /\ currentSpeed = SprintSpeed
    /\ velocity = Origin
    /\ camTarget = Origin
    /\ camPos = Point(0, 0, 0)

(* C13: with the avatar and the walk clip loaded, after every frame the clip
   runs exactly when the velocity's squared magnitude exceeds 0.01; the frame
   calls play() only on a clip that is not running and stop() only on one
   that is, and calls neither when the clip already is as the motion asks. *)
C13_ClipFollowsMotion ==
    [][\A dt \in WalkTicks :
         (update(dt, HalfTurn) /\ mesh /\ walkAction) =>
            /\ walkRunning' <=>
                  (velocity'.x * velocity'.x + velocity'.z * velocity'.z > 10000)
            /\ clipCall' = "play" => (~walkRunning /\ walkRunning')
            /\ clipCall' = "stop" => (walkRunning /\ ~walkRunning')
            /\ clipCall' = "none" <=> (walkRunning' <=> walkRunning)]_vars

(* a moving frame with the clip already running: no call, the clip runs on *)
C13_Witness ==
    /\ mesh
    /\ walkAction
    /\ walkRunning
    /\ clipCall = "none"
    /\ velocity.z * velocity.z > 10000

Between(old, new, target) ==
    \/ old <= new /\ new <= target
    \/ target <= new /\ new <= old

(* the velocity a frame blends toward *)
VelocityTarget(q) ==
    IF UpdatedMove = Zero2 THEN Origin
    ELSE TargetVelocity(UpdatedMove, UpdatedSpeed, q)

(* C16: in every frame each smoothed value (the velocity toward its target,
   the camera follow target toward the avatar's position, the camera
   position toward target + offset) ends between its old value and its
   target, on every axis: no frame time makes it pass the target. *)
C16_NoOvershoot ==
    [][\A dt \in DecayTicks :
         (update(dt, 0) /\ mesh) =>
            LET goal == CameraOffset(theta', phi')
            IN  /\ Between(velocity.x, velocity'.x, VelocityTarget(0).x)
                /\ Between(velocity.z, velocity'.z, VelocityTarget(0).z)
                /\ Between(camTarget.x, camTarget'.x, position'.x)
                /\ Between(camTarget.z, camTarget'.z, position'.z)
                /\ Between(camPos.x, camPos'.x, camTarget'.x + goal.x)
                /\ Between(camPos.y, camPos'.y, goal.y)
                /\ Between(camPos.z, camPos'.z, camTarget'.z + goal.z)]_vars

=============================================================================
